---- MODULE Spec2Model ----
(***************************************************************************)
(* Model of the Sage Intacct request engine, sageintacctsdk/apis/api_base. *)
(* ApiBase owns the session (sender credentials, session id, endpoint),    *)
(* builds the request envelope, posts it, classifies the response and      *)
(* offers count / get / get_all / post on top of format_and_send_request.  *)
(*                                                                         *)
(* Strings that the code inspects (description2) are sequences of tokens;  *)
(* a token is a run of characters the code never splits.  Python's None    *)
(* is the string "None" for scalar fields and the empty sequence for       *)
(* description2 (xmltodict decodes an empty element as None, never as ""). *)
(***************************************************************************)
EXTENDS Integers, Sequences, FiniteSets, TLC

VARIABLES sender_id, sender_password, session_id, api_url,
          dimension, pagesize, post_legacy_method,
          remote, call, requests, response, outcome,
          complete_data, count_, offset,
          public_post_legacy_method

vars == <<sender_id, sender_password, session_id, api_url,
          dimension, pagesize, post_legacy_method,
          remote, call, requests, response, outcome,
          complete_data, count_, offset,
          public_post_legacy_method>>

session == <<sender_id, sender_password, session_id, api_url,
             dimension, pagesize, post_legacy_method>>

None == "None"

\* ------------------------------------------------------------------ bounds
MaxRemote == 3
MaxPageSize == 2
MaxErrors == 2

\* ------------------------------------------------------- string functions
SupportIdMarker == "Support ID: "
PermissionMarker == "You do not have permission for API"

\* urllib.parse.unquote, token by token: a percent escape becomes its character
UnquoteToken(t) ==
  CASE t = "%2B" -> "+"
    [] t = "%2F" -> "/"
    [] t = "%20" -> " "
    [] OTHER -> t

unquote(s) == [i \in 1..Len(s) |-> UnquoteToken(s[i])]

\* `sub in s` for strings
IsPrefixAt(sub, s, i) ==
  /\ i + Len(sub) - 1 <= Len(s)
  /\ \A k \in 1..Len(sub) : s[i + k - 1] = sub[k]

Contains(s, sub) == \E i \in 1..(Len(s) + 1) : IsPrefixAt(sub, s, i)

\* str.replace(old, new): every non-overlapping occurrence, left to right
RECURSIVE ReplaceFrom(_, _, _, _)
ReplaceFrom(s, old, new, i) ==
  IF i > Len(s) THEN <<>>
  ELSE IF IsPrefixAt(old, s, i)
       THEN new \o ReplaceFrom(s, old, new, i + Len(old))
       ELSE <<s[i]>> \o ReplaceFrom(s, old, new, i + 1)

replace(s, old, new) == IF old = <<>> THEN s ELSE ReplaceFrom(s, old, new, 1)

\* re.search('Support ID: (.*)]', message): the leftmost marker that has a
\* ']' after it; the greedy group runs to the last ']'.  NoMatch is None.
MarkerPositions(s) == {i \in 1..Len(s) : s[i] = SupportIdMarker}
BracketPositions(s) == {i \in 1..Len(s) : s[i] = "]"}
Min(S) == CHOOSE x \in S : \A y \in S : x <= y
Max(S) == CHOOSE x \in S : \A y \in S : x >= y

re_search(message) ==
  LET ms == MarkerPositions(message)
      bs == BracketPositions(message)
  IN IF ms # {} /\ bs # {} /\ Max(bs) > Min(ms)
     THEN [matched |-> TRUE, group1 |-> SubSeq(message, Min(ms) + 1, Max(bs) - 1)]
     ELSE [matched |-> FALSE, group1 |-> <<>>]

\* int(s) for a string of decimal digits, and its inverse on the gateway side
DigitValue(d) ==
  CASE d = "0" -> 0 [] d = "1" -> 1 [] d = "2" -> 2 [] d = "3" -> 3 [] d = "4" -> 4
    [] d = "5" -> 5 [] d = "6" -> 6 [] d = "7" -> 7 [] d = "8" -> 8 [] d = "9" -> 9

RECURSIVE int(_)
int(s) == IF s = <<>> THEN 0 ELSE 10 * int(SubSeq(s, 1, Len(s) - 1)) + DigitValue(s[Len(s)])

DigitChar(n) == <<"0", "1", "2", "3", "4", "5", "6", "7", "8", "9">>[n + 1]

RECURSIVE str(_)
str(n) == IF n < 10 THEN <<DigitChar(n)>> ELSE str(n \div 10) \o <<DigitChar(n % 10)>>

\* ------------------------------------------------------- decoded responses
\* An error entry of errormessage.error: description2 and the fields the
\* engine passes through.  errormessage.error is one entry (type "dict") or a
\* sequence of entries (type "list"), as xmltodict decodes it.
Entry(no, d2) == [errorno |-> no, description2 |-> d2]
ErrNode(t, es) == [type |-> t, error |-> es]
NoErrors == ErrNode("none", <<>>)

NoData == [totalcount |-> <<>>, rows |-> <<>>, api |-> [endpoint |-> None, sessionid |-> None], body |-> None]
NoResult == [status |-> None, function |-> None, data |-> NoData]

\* response.operation of a decoded response
Operation(resp) ==
  [authentication |-> [status |-> resp.authentication],
   result |-> [status |-> resp.result, function |-> resp.function, data |-> resp.data],
   errormessage |-> resp.errormessage]
NoOperation == [authentication |-> [status |-> None], result |-> NoResult, errormessage |-> NoErrors]

\* ------------------------------------------------------------ outcomes
Taxonomy == {"SageIntacctSDKError", "ExpiredTokenError", "InvalidTokenError", "NoPrivilegeError",
             "WrongParamsError", "NotFoundItemError", "InternalServerError"}

NoValue == [kind |-> "none", sid |-> None, result |-> NoResult, n |-> 0, rows |-> <<>>]
Raise(exc, msg, payload) ==
  [kind |-> "raise", exc |-> exc, message |-> msg, payload |-> payload, value |-> NoValue, api_response |-> NoOperation]
Return(v) ==
  [kind |-> "return", exc |-> None, message |-> <<>>, payload |-> NoErrors, value |-> v, api_response |-> NoOperation]
Idle == [kind |-> "none", exc |-> None, message |-> <<>>, payload |-> NoErrors, value |-> NoValue, api_response |-> NoOperation]
Pending == [Idle EXCEPT !.kind = "pending"]
\* the decoded document itself, attached to transport-level errors
ParsedResponse == ErrNode("parsed_response", <<>>)

\* ----------------------------------------------------- __support_id_msg
support_id_msg(errormessages) ==
  IF errormessages.type = "list"
  THEN [error |-> errormessages.error[1], type |-> "list"]
  ELSE [error |-> errormessages.error[1], type |-> "dict"]

\* --------------------------------------------------- __decode_support_id
\* message is bound only inside the `if error and error['description2']`;
\* re.search returns None when the message has no Support ID fragment.
\* faulty variant: the description2 of every entry is percent-decoded
decode_every_support_id(errormessages) ==
  LET sim == support_id_msg(errormessages)
      error == sim.error
      bound == error.description2 # <<>>
      support_id == re_search(error.description2)
      listed == errormessages.error
  IN IF bound /\ ~support_id.matched
     THEN [raised |-> TRUE, exc |-> "AttributeError", errormessages |-> errormessages]
     ELSE IF ~bound
     THEN [raised |-> TRUE, exc |-> "UnboundLocalError", errormessages |-> errormessages]
     ELSE [raised |-> FALSE, exc |-> None,
           errormessages |-> ErrNode("list", [i \in 1..Len(listed) |->
                                                [listed[i] EXCEPT !.description2 = unquote(@)]])]

decode_support_id(errormessages) ==
  LET sim == support_id_msg(errormessages)
      data_type == sim.type
      error == sim.error
      bound == error.description2 # <<>>
      support_id == re_search(error.description2)
      decoded_support_id == unquote(support_id.group1)
      message == IF support_id.group1 # <<>>
                 THEN replace(error.description2, support_id.group1, decoded_support_id)
                 ELSE error.description2
      listed == errormessages.error
  IN IF bound /\ ~support_id.matched
     THEN [raised |-> TRUE, exc |-> "AttributeError", errormessages |-> errormessages]
     ELSE IF ~bound
     THEN [raised |-> TRUE, exc |-> "UnboundLocalError", errormessages |-> errormessages]
     ELSE [raised |-> FALSE, exc |-> None,
           errormessages |-> ErrNode("list", [listed EXCEPT ![1].description2 = message])]

\* --------------------------------------------------------- __post_request
\* The classification of a transport response (status code, body).  The body
\* is parsed before the status code is looked at; resp.xml says whether the
\* body is a well-formed document.
HasPermissionMarker(es) ==
  \E i \in 1..Len(es) : /\ es[i].description2 # <<>>
                        /\ Contains(es[i].description2, <<PermissionMarker>>)

StatusCodeError(resp) ==
  CASE resp.status_code = 400 -> Raise("WrongParamsError", <<"Some of the parameters are wrong">>, ParsedResponse)
    [] resp.status_code = 401 -> Raise("InvalidTokenError", <<"Invalid token / Incorrect credentials">>, ParsedResponse)
    [] resp.status_code = 403 -> Raise("NoPrivilegeError", <<"Forbidden, the user has insufficient privilege">>, ParsedResponse)
    [] resp.status_code = 404 -> Raise("NotFoundItemError", <<"Not found item with ID">>, ParsedResponse)
    [] resp.status_code = 498 -> Raise("ExpiredTokenError", <<"Expired token, try to refresh it">>, ParsedResponse)
    [] resp.status_code = 500 -> Raise("InternalServerError", <<"Internal server error">>, ParsedResponse)
    [] OTHER -> Raise("SageIntacctSDKError", <<"Error: ">>, ParsedResponse)

ResultFailure(resp) ==
  LET exception_msg == decode_support_id(resp.errormessage)
  IN IF exception_msg.raised
     THEN Raise(exception_msg.exc, <<>>, NoErrors)
     ELSE IF HasPermissionMarker(exception_msg.errormessages.error)
     THEN Raise("InvalidTokenError", <<"The user has insufficient privilege">>, exception_msg.errormessages)
     ELSE Raise("WrongParamsError", <<"Error during ", resp.function>>, exception_msg.errormessages)

ControlFailure(resp) ==
  LET exception_msg == decode_support_id(resp.errormessage)
  IN IF exception_msg.raised
     THEN Raise(exception_msg.exc, <<>>, NoErrors)
     ELSE Raise("WrongParamsError", <<"Some of the parameters are wrong">>, exception_msg.errormessages)

\* faulty variant: the authentication status is looked at before the control status
post_request_authentication_first(resp) ==
  IF ~resp.xml THEN Raise("ExpatError", <<>>, NoErrors)
  ELSE IF resp.status_code = 200
  THEN IF resp.authentication = "failure"
       THEN Raise("InvalidTokenError", <<"Invalid token / Incorrect credentials">>, resp.errormessage)
       ELSE IF resp.control = "failure" THEN ControlFailure(resp)
       ELSE IF resp.control # "success" THEN Raise("UnboundLocalError", <<>>, NoErrors)
       ELSE IF resp.result = "success"
       THEN [Return(NoValue) EXCEPT !.api_response = Operation(resp)]
       ELSE IF resp.result = "failure" THEN ResultFailure(resp)
       ELSE StatusCodeError(resp)
  ELSE StatusCodeError(resp)

post_request(resp) ==
  IF ~resp.xml THEN Raise("ExpatError", <<>>, NoErrors)
  ELSE IF resp.status_code = 200
  THEN IF resp.control = "failure" THEN ControlFailure(resp)
       ELSE IF resp.control # "success" THEN Raise("UnboundLocalError", <<>>, NoErrors)
       ELSE IF resp.authentication = "failure"
       THEN Raise("InvalidTokenError", <<"Invalid token / Incorrect credentials">>, resp.errormessage)
       ELSE IF resp.result = "success"
       THEN [Return(NoValue) EXCEPT !.api_response = Operation(resp)]
       ELSE IF resp.result = "failure" THEN ResultFailure(resp)
       ELSE StatusCodeError(resp)
  ELSE StatusCodeError(resp)

\* ------------------------------------------------------- request envelopes
DefaultApiUrl == "https://api.intacct.com/ia/xml/xmlgw.phtml"
LegacyDimensions == {"CCTRANSACTION", "EEXPENSES", "EPPAYMENT"}

NoLogin == [userid |-> None, companyid |-> None, password |-> None]
NoFilter == <<>>
EqualTo(field, value) == <<[equalto |-> [field |-> field, value |-> value]]>>

\* the one key of the function element and what it carries
Payload(object, select, fields, query, size, off, filter, nested, data) ==
  [object |-> object, select |-> select, fields |-> fields, query |-> query,
   pagesize |-> size, offset |-> off, filter |-> filter, nested |-> nested, data |-> data]
Absent == 0 - 1
RawPayload(data) == Payload(None, <<>>, <<>>, <<>>, Absent, Absent, NoFilter, None, data)

Control == [senderid |-> sender_id, password |-> sender_password]

\* faulty variant: the login request also carries the session id
LoginBodyWithSession(user_id, company_id, user_password) ==
  [url |-> api_url,
   control |-> Control,
   authentication |-> [keys |-> {"login", "sessionid"},
                       login |-> [userid |-> user_id, companyid |-> company_id, password |-> user_password],
                       sessionid |-> session_id],
   function |-> [key |-> "getAPISession", value |-> RawPayload(None)]]

\* dict_body of get_session_id: authentication.login, function getAPISession
LoginBody(user_id, company_id, user_password) ==
  [url |-> api_url,
   control |-> Control,
   authentication |-> [keys |-> {"login"},
                       login |-> [userid |-> user_id, companyid |-> company_id, password |-> user_password],
                       sessionid |-> None],
   function |-> [key |-> "getAPISession", value |-> RawPayload(None)]]

\* faulty variant: every function request is posted to the default endpoint
FunctionBodyDefaultUrl(key, value) ==
  [url |-> DefaultApiUrl,
   control |-> Control,
   authentication |-> [keys |-> {"sessionid"}, login |-> NoLogin, sessionid |-> session_id],
   function |-> [key |-> key, value |-> value]]

\* dict_body of format_and_send_request: authentication.sessionid, function key
FunctionBody(key, value) ==
  [url |-> api_url,
   control |-> Control,
   authentication |-> [keys |-> {"sessionid"}, login |-> NoLogin, sessionid |-> session_id],
   function |-> [key |-> key, value |-> value]]

\* truth value of a Python str-or-None / list-or-None argument
Truthy(x) == x # None /\ x # ""
TruthyList(l) == l # <<>>

\* sep.join(l)
RECURSIVE join(_, _)
join(sep, l) ==
  IF l = <<>> THEN <<>>
  ELSE IF Len(l) = 1 THEN <<l[1]>>
  ELSE <<l[1], sep>> \o join(sep, Tail(l))

\* dimensions_fields_mapping[dimension] of .constants
DimensionsFieldsMapping(d) == <<"RECORDNO", "STATUS">>

\* payloads of the public operations
PostPayload(data) == [key |-> "create", value |-> [RawPayload(data) EXCEPT !.nested = dimension]]
PostLegacyPayload(data) == [key |-> post_legacy_method, value |-> RawPayload(data)]
\* faulty variant: the legacy dimensions are not told apart
post_payload_create(data) == PostPayload(data)

post_payload(data) ==
  IF dimension \in LegacyDimensions THEN PostLegacyPayload(data) ELSE PostPayload(data)

CountPayload ==
  [key |-> "query",
   value |-> Payload(dimension, <<"RECORDNO">>, <<>>, <<>>, 1, Absent, NoFilter, None, None)]

GetPageSize == 1000
GetPayload(field, value, fields) ==
  [key |-> "readByQuery",
   value |-> Payload(dimension, <<>>, IF TruthyList(fields) THEN join(",", fields) ELSE <<"*">>,
                     <<field, " = '", value, "'">>, GetPageSize, Absent, NoFilter, None, None)]

\* faulty variant: the filter is added whenever a field is given
PageFilterFieldOnly(field, value) ==
  IF Truthy(field) THEN EqualTo(field, value) ELSE NoFilter

PageFilter(field, value) ==
  IF Truthy(field) /\ Truthy(value) THEN EqualTo(field, value) ELSE NoFilter

PagePayload(field, value, fields, off) ==
  [key |-> "query",
   value |-> Payload(dimension,
                     IF TruthyList(fields) THEN fields ELSE DimensionsFieldsMapping(dimension),
                     <<>>, <<>>, pagesize, off, PageFilter(field, value), None, None)]

\* ------------------------------------------------------------ the gateway
\* The remote object set of the dimension: records in RECORDNO order.  The
\* gateway answers a query with @totalcount and the rows of the page asked.
StatusOf(n) == IF n % 2 = 1 THEN "submitted" ELSE "draft"
Record(n) == [RECORDNO |-> n, STATUS |-> StatusOf(n)]
Records(ns) == [i \in 1..Len(ns) |-> Record(ns[i])]

Matches(rec, filter) ==
  \/ filter = NoFilter
  \/ /\ filter # NoFilter
     /\ filter[1].equalto.field = "STATUS"
     /\ rec.STATUS = filter[1].equalto.value

Matching(filter) == SelectSeq(Records(remote), LAMBDA rec : Matches(rec, filter))

PageOf(rows, off, size) ==
  LET from == IF off = Absent THEN 1 ELSE off + 1
      upto == IF from + size - 1 < Len(rows) THEN from + size - 1 ELSE Len(rows)
  IN SubSeq(rows, from, upto)

LoginEndpoint == "https://api.intacct.com/ia/xml/xmlgw.phtml?session"
LoginSessionId == "session-from-login"

SuccessData(req) ==
  CASE req.function.key = "getAPISession" ->
         [NoData EXCEPT !.api = [endpoint |-> LoginEndpoint, sessionid |-> LoginSessionId]]
    [] req.function.key = "query" ->
         LET rows == Matching(req.function.value.filter)
         IN [NoData EXCEPT !.totalcount = str(Len(rows)),
                           !.rows = PageOf(rows, req.function.value.offset, req.function.value.pagesize)]
    [] OTHER -> [NoData EXCEPT !.body = "DATA"]

Response(code, xml, control, authentication, result, function, errormessage, data) ==
  [status_code |-> code, xml |-> xml, control |-> control, authentication |-> authentication,
   result |-> result, function |-> function, errormessage |-> errormessage, data |-> data]
NoResponse == Response(0, FALSE, None, None, None, None, NoErrors, NoData)

Success(req) ==
  Response(200, TRUE, "success", "success", "success", req.function.key, NoErrors, SuccessData(req))

\* description2 texts the gateway sends
NoDescription == <<>>
PlainDescription == <<"Invalid request">>
SupportIdDescription == <<"Failed. ", SupportIdMarker, "[", "abc", "%2B", "def", "]">>
PermissionDescription == <<PermissionMarker, " ", SupportIdMarker, "[", "x", "%2F", "y", "]">>
PermissionPlainDescription == <<PermissionMarker>>
Descriptions == {NoDescription, PlainDescription, SupportIdDescription,
                 PermissionDescription, PermissionPlainDescription}

RECURSIVE Tuples(_, _)
Tuples(S, n) == IF n = 0 THEN {<<>>} ELSE {<<x>> \o t : x \in S, t \in Tuples(S, n - 1)}

Entries(ds) == [i \in 1..Len(ds) |-> Entry("BL01001973", ds[i])]
\* one error decodes as a mapping, two or more as a sequence
ErrorNodes ==
  {ErrNode("dict", Entries(ds)) : ds \in Tuples(Descriptions, 1)}
  \cup UNION {{ErrNode("list", Entries(ds)) : ds \in Tuples(Descriptions, n)} : n \in 2..MaxErrors}

StatusCodes == {200, 204, 400, 401, 403, 404, 498, 500, 503}

TransportFailures ==
  {Response(c, x, None, None, None, None, NoErrors, NoData) : c \in StatusCodes \ {200}, x \in BOOLEAN}
  \cup {Response(200, FALSE, None, None, None, None, NoErrors, NoData)}

EnvelopeFailures(req, nodes) ==
  {Response(200, TRUE, "failure", None, None, None, e, NoData) : e \in nodes}
  \cup {Response(200, TRUE, "success", "failure", r, req.function.key,
                 ErrNode("dict", Entries(<<PlainDescription>>)), NoData) : r \in {"success", "failure"}}
  \cup {Response(200, TRUE, "success", "success", "failure", req.function.key, e, NoData) : e \in nodes}
  \cup {Response(200, TRUE, "success", "success", "aborted", req.function.key, NoErrors, NoData)}

\* every answer the gateway or the transport can give to a request
Gateway(req) == {Success(req)} \cup TransportFailures \cup EnvelopeFailures(req, ErrorNodes)

\* one answer of every class, for the operations built on the request engine
Transport(code, xml) == Response(code, xml, None, None, None, None, NoErrors, NoData)
Single(d) == ErrNode("dict", Entries(<<d>>))
ControlFailed(e) == Response(200, TRUE, "failure", None, None, None, e, NoData)
AuthenticationFailed(req) ==
  Response(200, TRUE, "success", "failure", "success", req.function.key, Single(PlainDescription), NoData)
ResultFailed(req, e) == Response(200, TRUE, "success", "success", "failure", req.function.key, e, NoData)

\* a document with every status set: control, authentication, result
Statuses(req, c, a, r) ==
  Response(200, TRUE, c, a, r, req.function.key, Single(SupportIdDescription), NoData)

GatewayFew(req) ==
  {Success(req), Transport(498, TRUE), ControlFailed(Single(SupportIdDescription)),
   AuthenticationFailed(req), ResultFailed(req, Single(SupportIdDescription)),
   ResultFailed(req, Single(PermissionDescription)),
   Statuses(req, "failure", "failure", "failure"),
   Statuses(req, "success", "failure", "failure")}

GatewayPaging(req) ==
  {Success(req), Transport(498, TRUE), ResultFailed(req, Single(SupportIdDescription))}

\* the answers a specification lets the gateway give
Answers(answers, req) ==
  CASE answers = "all" -> Gateway(req)
    [] answers = "few" -> GatewayFew(req)
    [] answers = "paging" -> GatewayPaging(req)

\* ------------------------------------------------------------------ state
\* The resource accessors construct the engine with a dimension and, for
\* some, a legacy verb: (dimension, post_legacy_method).
Configurations ==
  {<<"EEXPENSES", "create_expensereport">>,
   <<"ARINVOICE", "create_invoice">>,
   <<"ARADJUSTMENT", "ARADJUSTMENT">>,
   <<"EXPENSEPAYMENTTYPE", None>>}

Call(op, field, value, fields, data) ==
  [op |-> op, field |-> field, value |-> value, fields |-> fields, data |-> data, remote0 |-> remote]
NoCall == [op |-> None, field |-> None, value |-> None, fields |-> <<>>, data |-> None, remote0 |-> <<>>]

InitWith(configurations, pagesizes, lengths) ==
  /\ sender_id = None
  /\ sender_password = None
  /\ session_id = None
  /\ api_url = DefaultApiUrl
  /\ \E c \in configurations : dimension = c[1] /\ post_legacy_method = c[2]
  /\ pagesize \in pagesizes
  /\ \E n \in lengths : remote = [i \in 1..n |-> i]
  /\ call = NoCall
  /\ requests = <<>>
  /\ response = NoResponse
  /\ outcome = Idle
  /\ complete_data = <<>>
  /\ count_ = 0
  /\ offset = 0
  /\ public_post_legacy_method = None

\* no call is in progress (the engine is used by one caller at a time)
Ready == outcome.kind # "pending"

Locals0 == complete_data' = <<>> /\ count_' = 0 /\ offset' = 0

\* a call that issues no request
Done(c, out) ==
  /\ call' = c
  /\ requests' = <<>>
  /\ response' = NoResponse
  /\ outcome' = out
  /\ Locals0

\* faulty variant: the request is posted a second time
ExchangedTwice(c, req, resp, out) ==
  /\ call' = c
  /\ requests' = <<req, req>>
  /\ response' = resp
  /\ outcome' = out
  /\ Locals0

\* a call that issues one request and gets resp
Exchanged(c, req, resp, out) ==
  /\ call' = c
  /\ requests' = <<req>>
  /\ response' = resp
  /\ outcome' = out
  /\ Locals0

ReturnNone == Return(NoValue)
ReturnSessionId(sid) == Return([NoValue EXCEPT !.kind = "session_id", !.sid = sid])
ReturnResult(node) == Return([NoValue EXCEPT !.kind = "result", !.result = node])
ReturnData(node) == Return([NoValue EXCEPT !.kind = "data", !.result = node])
ReturnInt(n) == Return([NoValue EXCEPT !.kind = "int", !.n = n])
ReturnList(rows) == Return([NoValue EXCEPT !.kind = "list", !.rows = rows])

\* ---------------------------------------------------------------- setters
SenderIds == {"sender"}
SenderPasswords == {"sender-password"}
SessionIds == {"session-set-by-caller"}

set_sender_id(v) ==
  /\ Ready
  /\ sender_id' = v
  /\ Done(Call("set_sender_id", None, v, <<>>, None), ReturnNone)
  /\ UNCHANGED <<sender_password, session_id, api_url, dimension, pagesize, post_legacy_method, remote, public_post_legacy_method>>

set_sender_password(v) ==
  /\ Ready
  /\ sender_password' = v
  /\ Done(Call("set_sender_password", None, v, <<>>, None), ReturnNone)
  /\ UNCHANGED <<sender_id, session_id, api_url, dimension, pagesize, post_legacy_method, remote, public_post_legacy_method>>

set_session_id(v) ==
  /\ Ready
  /\ session_id' = v
  /\ Done(Call("set_session_id", None, v, <<>>, None), ReturnNone)
  /\ UNCHANGED <<sender_id, sender_password, api_url, dimension, pagesize, post_legacy_method, remote, public_post_legacy_method>>

\* ------------------------------------------------------- get_session_id
\* what get_session_id does with the answer to its request
LoginOutcome(resp) ==
  LET r == post_request(resp)
  IN IF r.kind # "return" THEN r
     ELSE IF r.api_response.authentication.status = "success"
     THEN ReturnSessionId(r.api_response.result.data.api.sessionid)
     ELSE Raise("SageIntacctSDKError", <<"Error: ">>, r.api_response.errormessage)

\* faulty variant: the session is taken from any decoded status-200 document
LoggedInAnyDocument(resp) == resp.xml /\ resp.status_code = 200

LoggedIn(resp) ==
  LET r == post_request(resp)
  IN r.kind = "return" /\ r.api_response.authentication.status = "success"

get_session_id(user_id, company_id, user_password, answers) ==
  /\ Ready
  /\ LET req == LoginBody(user_id, company_id, user_password)
     IN \E resp \in Answers(answers, req) :
          /\ Exchanged(Call("get_session_id", user_id, user_password, <<>>, company_id),
                       req, resp, LoginOutcome(resp))
          /\ IF LoggedIn(resp)
             THEN /\ api_url' = resp.data.api.endpoint
                  /\ session_id' = resp.data.api.sessionid
             ELSE UNCHANGED <<api_url, session_id>>
  /\ UNCHANGED <<sender_id, sender_password, dimension, pagesize, post_legacy_method, remote, public_post_legacy_method>>

\* ------------------------------------------------ format_and_send_request
\* the value or the error of format_and_send_request, given the answer
format_and_send_request(resp) ==
  LET r == post_request(resp)
  IN IF r.kind = "return" THEN ReturnResult(r.api_response.result) ELSE r

SendData == {[key |-> "readReport", value |-> RawPayload("REPORT")],
             [key |-> "update", value |-> RawPayload("DATA")]}

send(data, answers) ==
  /\ Ready
  /\ LET req == FunctionBody(data.key, data.value)
     IN \E resp \in Answers(answers, req) :
          Exchanged(Call("send", None, None, <<>>, data.value.data), req, resp,
                    format_and_send_request(resp))
  /\ UNCHANGED <<session, remote, public_post_legacy_method>>

\* ------------------------------------------------------------------- post
PostData == {"DATA"}

post(data, answers) ==
  /\ Ready
  /\ LET p == post_payload(data)
         req == FunctionBody(p.key, p.value)
     IN \E resp \in Answers(answers, req) :
          Exchanged(Call("post", None, None, <<>>, data), req, resp, format_and_send_request(resp))
  /\ UNCHANGED <<session, remote, public_post_legacy_method>>

\* ------------------------------------------------------------------ count
CountOutcome(resp) ==
  LET r == format_and_send_request(resp)
  IN IF r.kind = "return" THEN ReturnInt(int(r.value.result.data.totalcount)) ELSE r

count(answers) ==
  /\ Ready
  /\ LET req == FunctionBody(CountPayload.key, CountPayload.value)
     IN \E resp \in Answers(answers, req) :
          Exchanged(Call("count", None, None, <<>>, None), req, resp, CountOutcome(resp))
  /\ UNCHANGED <<session, remote, public_post_legacy_method>>

\* -------------------------------------------------------------------- get
GetOutcome(resp) ==
  LET r == format_and_send_request(resp)
  IN IF r.kind = "return" THEN ReturnData(r.value.result) ELSE r

get(field, value, fields, answers) ==
  /\ Ready
  /\ LET p == GetPayload(field, value, fields)
         req == FunctionBody(p.key, p.value)
     IN \E resp \in Answers(answers, req) :
          Exchanged(Call("get", field, value, fields, None), req, resp, GetOutcome(resp))
  /\ UNCHANGED <<session, remote, public_post_legacy_method>>

\* ---------------------------------------------------------------- get_all
\* One step per request: the count request, then one page request per value
\* of range(0, count, pagesize), then the return.  The remote set may change
\* between the requests.

\* data[dimension] of a page: the key exists only if the page has rows
PageRows(node) == node.data.rows
HasDimensionKey(node) == node.data.rows # <<>>

get_all_count(field, value, fields, answers) ==
  /\ Ready
  /\ LET req == FunctionBody(CountPayload.key, CountPayload.value)
     IN \E resp \in Answers(answers, req) :
          LET r == CountOutcome(resp)
          IN /\ call' = Call("get_all", field, value, fields, None)
             /\ requests' = <<req>>
             /\ response' = resp
             /\ complete_data' = <<>>
             /\ offset' = 0
             /\ IF r.kind = "return"
                THEN outcome' = Pending /\ count_' = r.value.n
                ELSE outcome' = r /\ count_' = 0
  /\ UNCHANGED <<session, remote, public_post_legacy_method>>

\* faulty variant: a failed page request is skipped and the loop goes on
PageOutcomeSkipFailure(resp) ==
  LET r == format_and_send_request(resp)
  IN IF r.kind = "return" /\ ~HasDimensionKey(r.value.result)
     THEN Raise("KeyError", <<dimension>>, NoErrors)
     ELSE Pending

PageOutcome(resp) ==
  LET r == format_and_send_request(resp)
  IN IF r.kind # "return" THEN r
     ELSE IF ~HasDimensionKey(r.value.result) THEN Raise("KeyError", <<dimension>>, NoErrors)
     ELSE Pending

get_all_page(answers) ==
  /\ outcome.kind = "pending"
  /\ offset < count_
  /\ LET p == PagePayload(call.field, call.value, call.fields, offset)
         req == FunctionBody(p.key, p.value)
     IN \E resp \in Answers(answers, req) :
          LET r == PageOutcome(resp)
          IN /\ requests' = Append(requests, req)
             /\ response' = resp
             /\ outcome' = r
             /\ IF r.kind = "pending"
                THEN /\ complete_data' = complete_data \o PageRows(format_and_send_request(resp).value.result)
                     /\ offset' = offset + pagesize
                ELSE UNCHANGED <<complete_data, offset>>
  /\ UNCHANGED <<session, remote, public_post_legacy_method, call, count_>>

get_all_return ==
  /\ outcome.kind = "pending"
  /\ offset >= count_
  /\ outcome' = ReturnList(complete_data)
  /\ UNCHANGED <<session, remote, public_post_legacy_method, call, requests, response, complete_data, count_, offset>>

\* -------------------------------------------------------------- accessors
\* ARInvoices and ARAdjustment call methods of self by name.  A name written
\* with two leading underscores inside class ApiBase is stored as
\* _ApiBase__name; these are the methods an accessor instance has:
ApiBaseMethods ==
  {"set_sender_id", "set_sender_password", "get_session_id", "set_session_id",
   "_ApiBase__support_id_msg", "_ApiBase__decode_support_id", "_ApiBase__post_request",
   "format_and_send_request", "post", "_ApiBase__construct_post_payload",
   "_ApiBase__construct_post_legacy_payload", "count", "get", "get_all"}

AccessorData == {"DATA"}

\* return self.<name>(data): the legacy payload is sent when the name is
\* that of __construct_post_legacy_payload; a name the instance does not
\* have raises AttributeError before any request is built
self_call(op, name, data, answers) ==
  /\ Ready
  /\ IF name = "_ApiBase__construct_post_legacy_payload"
     THEN LET p == PostLegacyPayload(data)
              req == FunctionBody(p.key, p.value)
          IN \E resp \in Answers(answers, req) :
               Exchanged(Call(op, None, name, <<>>, data), req, resp, format_and_send_request(resp))
     ELSE /\ name \notin ApiBaseMethods
          /\ Done(Call(op, None, name, <<>>, data), Raise("AttributeError", <<name>>, NoErrors))

create_invoice(data, answers) ==
  /\ dimension = "ARINVOICE"
  /\ self_call("create_invoice", "_construct_post_legacy_payload", data, answers)
  /\ UNCHANGED <<session, remote, public_post_legacy_method>>

delete_duplicate_invoices(data, answers) ==
  /\ dimension = "ARINVOICE"
  /\ self_call("delete_duplicate_invoices", "_construct_delete", data, answers)
  /\ UNCHANGED <<session, remote, public_post_legacy_method>>

update_invoices(data, answers) ==
  /\ dimension = "ARINVOICE"
  /\ self_call("update_invoices", "_construct_post_legacy_payload", data, answers)
  /\ UNCHANGED <<session, remote, public_post_legacy_method>>

create_aradjustment(data, answers) ==
  /\ dimension = "ARADJUSTMENT"
  /\ self_call("create_aradjustment", "_construct_post_legacy_aradjustment_payload", data, answers)
  /\ UNCHANGED <<session, remote, public_post_legacy_method>>

\* faulty variant: the assignment reaches the engine's own legacy verb
update_engine_verb(data, answers) ==
  /\ dimension = "ARADJUSTMENT"
  /\ post_legacy_method' = "update_aradjustment"
  /\ self_call("update", "_construct_post_legacy_aradjustment_payload", data, answers)
  /\ UNCHANGED <<sender_id, sender_password, session_id, api_url, dimension, pagesize,
                 remote, public_post_legacy_method>>

\* self.post_legacy_method = ... in ARAdjustment sets the instance attribute
\* post_legacy_method, not the engine's _ApiBase__post_legacy_method
update(data, answers) ==
  /\ dimension = "ARADJUSTMENT"
  /\ public_post_legacy_method' = "update_aradjustment"
  /\ self_call("update", "_construct_post_legacy_aradjustment_payload", data, answers)
  /\ UNCHANGED <<session, remote>>

\* ------------------------------------------------------- the remote set
RemoteDelete ==
  /\ remote # <<>>
  /\ remote' = Tail(remote)
  /\ UNCHANGED <<session, public_post_legacy_method, call, requests, response, outcome, complete_data, count_, offset>>

RemoteInsert ==
  /\ LET n == IF remote = <<>> THEN 1 ELSE remote[Len(remote)] + 1
     IN n <= MaxRemote /\ remote' = Append(remote, n)
  /\ UNCHANGED <<session, public_post_legacy_method, call, requests, response, outcome, complete_data, count_, offset>>

\* --------------------------------------------------------- specifications
DefaultPageSize == 2000
FilterFields == {None, "STATUS"}
FilterValues == {None, "", "submitted", "draft"}
FieldLists == {<<>>, <<"RECORDNO">>}

\* The engine: session, single-request operations and get_all, for every
\* accessor configuration, against a remote set that stays as it is.
Init == InitWith(Configurations, {MaxPageSize}, {MaxRemote})

Next ==
  \/ \E v \in SenderIds : set_sender_id(v)
  \/ \E v \in SenderPasswords : set_sender_password(v)
  \/ \E v \in SessionIds : set_session_id(v)
  \/ get_session_id("user", "company", "user-password", "few")
  \/ \E d \in SendData : send(d, "few")
  \/ \E d \in PostData : post(d, "few")
  \/ count("few")
  \/ \E fs \in FieldLists : get("RECORDNO", "42", fs, "few")
  \/ \E a \in {<<None, None>>, <<"STATUS", "submitted">>} : get_all_count(a[1], a[2], <<>>, "paging")
  \/ get_all_page("paging")
  \/ get_all_return
  \/ \E d \in AccessorData : create_invoice(d, "few")
  \/ \E d \in AccessorData : delete_duplicate_invoices(d, "few")
  \/ \E d \in AccessorData : update_invoices(d, "few")
  \/ \E d \in AccessorData : create_aradjustment(d, "few")
  \/ \E d \in AccessorData : update(d, "few")

Spec == Init /\ [][Next]_vars

\* The classification of every answer the gateway can give, by send.
SendInit == InitWith({<<"ARINVOICE", "create_invoice">>}, {DefaultPageSize}, {0})

SendNext ==
  \/ \E v \in SenderIds : set_sender_id(v)
  \/ \E v \in SenderPasswords : set_sender_password(v)
  \/ \E d \in SendData : send(d, "all")

SendSpec == SendInit /\ [][SendNext]_vars

\* Pagination: get_all for every filter argument and page size, against a
\* remote set that may change between the requests of a call.
PagingInit == InitWith({<<"EXPENSEPAYMENTTYPE", None>>}, 1..MaxPageSize, 0..MaxRemote)

PagingNext ==
  \/ \E f \in FilterFields, v \in FilterValues : get_all_count(f, v, <<>>, "paging")
  \/ get_all_page("paging")
  \/ get_all_return
  \/ ~Ready /\ RemoteDelete
  \/ ~Ready /\ RemoteInsert

PagingSpec == PagingInit /\ [][PagingNext]_vars

\* ================================================================ claims
SendCall == call.op = "send"
FullSuccess(resp) ==
  /\ resp.status_code = 200 /\ resp.xml
  /\ resp.control = "success" /\ resp.authentication = "success" /\ resp.result = "success"

MappedVariant(code) ==
  CASE code = 400 -> "WrongParamsError"
    [] code = 401 -> "InvalidTokenError"
    [] code = 403 -> "NoPrivilegeError"
    [] code = 404 -> "NotFoundItemError"
    [] code = 498 -> "ExpiredTokenError"
    [] code = 500 -> "InternalServerError"
    [] OTHER -> "SageIntacctSDKError"

\* C1: for every answer with a status code other than 200, whatever its body,
\* send raises the variant of that code (400, 401, 403, 404, 498, 500), and
\* the generic SDK error for any other code.
C1_StatusCodeVariant ==
  (SendCall /\ response.status_code # 200)
    => (outcome.kind = "raise" /\ outcome.exc = MappedVariant(response.status_code))

\* C2: for every status-200 answer with control.status "failure", send raises
\* WrongParamsError and the payload's error entry is a sequence of length >= 1,
\* for a single error object or a sequence, whatever description2 holds.
C2_ControlFailure ==
  (SendCall /\ response.status_code = 200 /\ response.xml /\ response.control = "failure")
    => /\ outcome.kind = "raise"
       /\ outcome.exc = "WrongParamsError"
       /\ outcome.payload.type = "list"
       /\ Len(outcome.payload.error) >= 1

\* C3: for every status-200 answer with control and authentication "success"
\* and result.status "failure", send raises InvalidTokenError if some error
\* entry's description2 contains the permission marker, at any position, and
\* otherwise WrongParamsError with a message naming the failing function.
ResultFailureAnswer ==
  /\ SendCall /\ response.status_code = 200 /\ response.xml
  /\ response.control = "success" /\ response.authentication = "success"
  /\ response.result = "failure"

C3_PermissionMarker ==
  ResultFailureAnswer
    => /\ outcome.kind = "raise"
       /\ IF HasPermissionMarker(response.errormessage.error)
          THEN outcome.exc = "InvalidTokenError"
          ELSE /\ outcome.exc = "WrongParamsError"
               /\ outcome.message = <<"Error during ", requests[1].function.key>>

\* C4: every send that is not a full success raises one of the seven variants
\* of the taxonomy; it raises nothing else and returns no value.
C4_OnlyTaxonomy ==
  (SendCall /\ ~FullSuccess(response))
    => (outcome.kind = "raise" /\ outcome.exc \in Taxonomy)

\* ---------------------------------------------------------------- session
FunctionRequest(req) == req.function.key # "getAPISession"
LoginSucceeded == call.op = "get_session_id" /\ outcome.kind = "return"

\* C5: after a successful login the session id and the endpoint are those of
\* the login answer's result.data.api and login returns that session id; they
\* change only by a login or by set_session_id, and every request of another
\* operation is posted to the engine's endpoint with the engine's session id.
C5_LoginState ==
  LoginSucceeded
    => /\ session_id = response.data.api.sessionid
       /\ api_url = response.data.api.endpoint
       /\ outcome.value.kind = "session_id"
       /\ outcome.value.sid = response.data.api.sessionid

C5_RequestsUseSession ==
  (call.op # "get_session_id")
    => \A i \in 1..Len(requests) :
         /\ requests[i].url = api_url
         /\ requests[i].authentication.sessionid = session_id

C5_SessionKept ==
  /\ api_url' # api_url => (call'.op = "get_session_id" /\ outcome'.kind = "return")
  /\ session_id' # session_id
       => \/ call'.op = "get_session_id" /\ outcome'.kind = "return"
          \/ call'.op = "set_session_id"

\* the request of the operation called right after a successful login
C5_NextRequest ==
  (LoginSucceeded /\ call'.op \in {"get", "count", "get_all", "post", "send"})
    => /\ requests'[1].url = response.data.api.endpoint
       /\ requests'[1].authentication.sessionid = response.data.api.sessionid
       /\ requests'[1].url # DefaultApiUrl
       /\ requests'[1].authentication.sessionid # None

C5_LoginThenRequests ==
  /\ [](C5_LoginState /\ C5_RequestsUseSession)
  /\ [][C5_SessionKept /\ C5_NextRequest]_vars

\* a get after a login: posted to the login endpoint with the login session id
C5_Witness ==
  /\ call.op = "get"
  /\ Len(requests) = 1
  /\ requests[1].url = LoginEndpoint
  /\ requests[1].authentication.sessionid = LoginSessionId
  /\ LoginEndpoint # DefaultApiUrl

\* C6 as claimed: the login request carries login credentials and no session
\* id; every other request carries a present session id and no login
\* credentials, so none is sent while the session id is absent.
C6_SessionAlwaysPresent ==
  \A i \in 1..Len(requests) :
    IF FunctionRequest(requests[i])
    THEN /\ requests[i].authentication.keys = {"sessionid"}
         /\ requests[i].authentication.sessionid # None
    ELSE requests[i].authentication.keys = {"login"}

\* C6 as amended: every request carries exactly one kind of authentication;
\* the login request the login credentials and no session id, every other
\* request the engine's current session id and no login credentials, and that
\* session id is absent when neither a successful login nor set_session_id
\* came before.
C6_OneAuthenticationKind ==
  \A i \in 1..Len(requests) :
       IF FunctionRequest(requests[i])
       THEN /\ requests[i].authentication.keys = {"sessionid"}
            /\ requests[i].authentication.login = NoLogin
            /\ call.op # "get_session_id"
            /\ requests[i].authentication.sessionid = session_id
       ELSE /\ requests[i].authentication.keys = {"login"}
            /\ requests[i].authentication.sessionid = None
            /\ requests[i].authentication.login.userid # None
            /\ call.op = "get_session_id"

\* a request sent before any login, with the session id absent
C6_Witness ==
  /\ call.op = "get"
  /\ Len(requests) = 1
  /\ requests[1].authentication.keys = {"sessionid"}
  /\ requests[1].authentication.sessionid = None

\* ------------------------------------------------------------------- post
\* C10: post(data) on a legacy dimension sends the configured legacy verb
\* with data as its payload, on any other dimension the verb create with data
\* under the dimension name; one request is sent and on success its result
\* node is returned.
C10_PostVerb ==
  (call.op = "post")
    => /\ Len(requests) = 1
       /\ LET f == requests[1].function
          IN IF dimension \in {"CCTRANSACTION", "EEXPENSES", "EPPAYMENT"}
             THEN f.key = post_legacy_method /\ f.value.data = call.data /\ f.value.nested = None
             ELSE f.key = "create" /\ f.value.data = call.data /\ f.value.nested = dimension
       /\ FullSuccess(response)
            => /\ outcome.kind = "return"
               /\ outcome.value.kind = "result"
               /\ outcome.value.result = Operation(response).result
       /\ ~FullSuccess(response) => outcome.kind = "raise"

C10_Witness ==
  /\ call.op = "post"
  /\ dimension = "EEXPENSES"
  /\ requests[1].function.key = "create_expensereport"
  /\ outcome.kind = "return"

\* ------------------------------------------------------------- pagination
GetAllCall == call.op = "get_all"
Ceil(n, d) == (n + d - 1) \div d
PageRequests == SubSeq(requests, 2, Len(requests))
RemoteStable == remote = call.remote0
FilterOf(req) == req.function.value.filter

\* C7: count is the integer of @totalcount; get_all issues, after the count
\* request, ceil(count / pagesize) page requests at offsets 0, pagesize, ...
\* in increasing order and returns the pages' records in request order; when
\* the remote set does not change during the call it returns count records.
C7_Pagination ==
  /\ (GetAllCall /\ Len(requests) = 1 /\ outcome.kind = "pending")
       => count_ = int(response.data.totalcount)
  /\ (GetAllCall /\ outcome.kind = "return")
       => /\ Len(PageRequests) = Ceil(count_, pagesize)
          /\ \A k \in 1..Len(PageRequests) :
               /\ PageRequests[k].function.key = "query"
               /\ PageRequests[k].function.value.offset = (k - 1) * pagesize
               /\ PageRequests[k].function.value.offset < count_
          /\ outcome.value.rows = complete_data
          /\ RemoteStable => Len(outcome.value.rows) = count_

\* C8 as claimed: with field and value both given every page request carries
\* the equalto filter of that field and value; with no arguments none does.
Given(x) == x # None
C8_FilterWhenGiven ==
  GetAllCall
    => \A k \in 1..Len(PageRequests) :
         /\ (Given(call.field) /\ Given(call.value))
              => FilterOf(PageRequests[k]) = EqualTo(call.field, call.value)
         /\ (~Given(call.field) /\ ~Given(call.value))
              => FilterOf(PageRequests[k]) = NoFilter

\* C8 as amended: with field and value both given and non-empty every page
\* request carries the equalto filter of that field and value; when either is
\* missing or empty, as in a call with no arguments, no page request carries
\* a filter clause.
NonEmpty(x) == x # None /\ x # ""
C8_FilterWhenNonEmpty ==
  GetAllCall
    => \A k \in 1..Len(PageRequests) :
         IF NonEmpty(call.field) /\ NonEmpty(call.value)
         THEN FilterOf(PageRequests[k]) = <<[equalto |-> [field |-> call.field, value |-> call.value]]>>
         ELSE FilterOf(PageRequests[k]) = <<>>

\* two filtered page requests of one call
C8_Witness ==
  /\ GetAllCall
  /\ call.field = "STATUS" /\ call.value = "submitted"
  /\ Len(PageRequests) = 2
  /\ FilterOf(PageRequests[2]) # <<>>

\* C9: when a request of get_all fails, the count request or a page request,
\* get_all raises that request's error, returns no records, and issues no
\* page request after the failing one.
RequestFailed == GetAllCall /\ format_and_send_request(response).kind = "raise"

C9_Aborted ==
  RequestFailed
    => /\ outcome = format_and_send_request(response)
       /\ outcome.value.rows = <<>>

C9_NoRequestAfterFailure ==
  RequestFailed
    => /\ ~(call' = call /\ Len(requests') > Len(requests))
       /\ ~(call' = call /\ outcome'.kind = "return")

C9_AbortOnFailure == []C9_Aborted /\ [][C9_NoRequestAfterFailure]_vars

\* the second page request fails after a first page was fetched
C9_Witness ==
  /\ RequestFailed
  /\ Len(PageRequests) = 2
  /\ complete_data # <<>>
  /\ outcome.kind = "raise"

\* ------------------------------------------------------------------ login
LoginCall == call.op = "get_session_id"
AuthenticationFailure(resp) ==
  /\ resp.status_code = 200 /\ resp.xml
  /\ resp.control = "success" /\ resp.authentication = "failure"

\* C11: when the gateway answers the login request with authentication.status
\* "failure", login raises the generic SDK error, carrying the gateway's
\* errormessage.
C11_LoginFailureGeneric ==
  (LoginCall /\ AuthenticationFailure(response))
    => /\ outcome.kind = "raise"
       /\ outcome.exc = "SageIntacctSDKError"
       /\ outcome.payload = response.errormessage

\* -------------------------------------------------------------- accessors
InvoiceCall == call.op \in {"create_invoice", "update_invoices"}
AdjustmentCall == call.op \in {"create_aradjustment", "update"}

\* C12: create_invoice(data) and update_invoices(data) of the invoices
\* accessor each issue exactly one request, whose verb is the configured
\* legacy verb create_invoice carrying data, and return the gateway's result
\* node; create_aradjustment and update of the adjustments accessor issue a
\* request too.
C12_AccessorsDelegate ==
  /\ InvoiceCall
       => /\ Len(requests) = 1
          /\ requests[1].function.key = "create_invoice"
          /\ requests[1].function.value.data = call.data
          /\ FullSuccess(response)
               => /\ outcome.kind = "return"
                  /\ outcome.value.result = Operation(response).result
  /\ AdjustmentCall => Len(requests) = 1

\* ------------------------------------------------------------ support ids
EncodedFragment == <<SupportIdMarker, "[", "abc", "%2B", "def", "]">>
DecodedFragment == <<SupportIdMarker, "[", "abc", "+", "def", "]">>

\* send raised an error of the taxonomy whose payload is the decoded
\* errormessage of a control failure or of a result failure
DecodedPayload ==
  /\ SendCall /\ response.status_code = 200 /\ response.xml
  /\ \/ response.control = "failure"
     \/ response.control = "success" /\ response.authentication = "success" /\ response.result = "failure"
  /\ outcome.kind = "raise" /\ outcome.exc \in Taxonomy

\* C13: every description2 of the answer that holds the fragment
\* 'Support ID: [abc%2Bdef]' is surfaced in the raised error's payload with
\* 'abc+def' in place of 'abc%2Bdef': the surfaced message holds the decoded
\* id, no longer holds the encoded one, and is otherwise the original.
C13_SupportIdDecoded ==
  DecodedPayload
    => \A i \in 1..Len(response.errormessage.error) :
         LET original == response.errormessage.error[i].description2
             surfaced == outcome.payload.error[i].description2
         IN Contains(original, EncodedFragment)
              => /\ Contains(surfaced, DecodedFragment)
                 /\ ~Contains(surfaced, <<"%2B">>)
                 /\ Len(surfaced) = Len(original)
                 /\ \A k \in 1..Len(original) : original[k] # "%2B" => surfaced[k] = original[k]

\* ------------------------------------------------------------------ frame
SessionChangers == {"get_session_id", "set_sender_id", "set_sender_password", "set_session_id"}

\* C14: a step of send, count, get, get_all or post, successful or failing,
\* or of an accessor method, leaves the session id, the endpoint, the sender
\* credentials, the dimension, the legacy verb name and the page size as they
\* were; only login and the setters change them.
C14_SessionFrame ==
  [][call'.op \notin SessionChangers
       => /\ session_id' = session_id /\ api_url' = api_url
          /\ sender_id' = sender_id /\ sender_password' = sender_password
          /\ dimension' = dimension /\ post_legacy_method' = post_legacy_method
          /\ pagesize' = pagesize]_vars

\* ARAdjustment.update after a login: the engine's legacy verb is the one of
\* the constructor, the session that of the login
C14_Witness ==
  /\ call.op = "update"
  /\ public_post_legacy_method = "update_aradjustment"
  /\ post_legacy_method = "ARADJUSTMENT"
  /\ session_id = LoginSessionId
  /\ api_url = LoginEndpoint

\* ------------------------------------------------------------- no retries
SingleRequestOps == {"send", "count", "get", "post", "get_session_id"}
TokenErrors == {"ExpiredTokenError", "InvalidTokenError"}
TokenErrorRaised == outcome.kind = "raise" /\ outcome.exc \in TokenErrors

C15_OnePost ==
  /\ call.op \in SingleRequestOps => Len(requests) = 1
  /\ GetAllCall
       => /\ Len(requests) >= 1
          /\ requests[1].function = CountPayload
          /\ \A k \in 1..Len(PageRequests) :
               PageRequests[k].function.value.offset = (k - 1) * pagesize
  /\ \A i \in 1..Len(requests) :
       requests[i].function.key = "getAPISession" <=> call.op = "get_session_id"

C15_NoRequestAfterTokenError ==
  (TokenErrorRaised /\ call' = call) => Len(requests') <= Len(requests)

C15_StepPosts ==
  (call' = call /\ outcome.kind = "pending") => Len(requests') <= Len(requests) + 1

\* C15: every call of send, count, get, post or login issues exactly one
\* request, whether it succeeds or fails, and get_all one request for the
\* count and one per page; after an ExpiredTokenError or InvalidTokenError
\* the engine posts nothing more for that call and issues no login request.
C15_NoRetry == []C15_OnePost /\ [][C15_NoRequestAfterTokenError /\ C15_StepPosts]_vars

\* a send refused with an expired token: one request, no login
C15_Witness ==
  /\ SendCall
  /\ outcome.kind = "raise" /\ outcome.exc = "ExpiredTokenError"
  /\ Len(requests) = 1
  /\ requests[1].function.key # "getAPISession"

\* ------------------------------------------------------------- precedence
Status200 == call.op \in SingleRequestOps /\ response.status_code = 200 /\ response.xml
Decodes(errormessages) == Contains(errormessages.error[1].description2, <<SupportIdMarker>>)

C16_ControlFirst ==
  /\ SendCall
  /\ response.control = "failure" /\ response.authentication = "failure" /\ response.result = "failure"
  /\ outcome.exc = "WrongParamsError"

\* ------------------------------------------------- pages of a filtered call
\* a filtered get_all that ended, by its return or by an error of its own,
\* with every request answered successfully and the remote set unchanged
FilteredCallEnded ==
  /\ GetAllCall
  /\ NonEmpty(call.field) /\ NonEmpty(call.value)
  /\ outcome.kind \in {"return", "raise"}
  /\ ~RequestFailed
  /\ RemoteStable

\* C17: in get_all with a filter the count request carries no filter, and
\* the number of page requests issued is ceil(N / pagesize) for the N records
\* of the dimension, matching or not: the page requests beyond the last
\* matching record are issued too.
C17_PagesByTotalCount ==
  FilteredCallEnded
    => /\ FilterOf(requests[1]) = NoFilter
       /\ Len(PageRequests) = Ceil(Len(remote), pagesize)

\* ----------------------------------------------------------- failed login
\* C18: a login that fails, in whatever way, leaves the session id and the
\* endpoint as they were before the call.
C18_FailedLoginKeepsSession ==
  [][(call'.op = "get_session_id" /\ outcome'.kind = "raise")
       => (session_id' = session_id /\ api_url' = api_url)]_vars

\* a failed login after a successful one: the session of the first is kept
C18_Witness ==
  /\ LoginCall
  /\ outcome.kind = "raise"
  /\ session_id = LoginSessionId
  /\ api_url = LoginEndpoint

\* ---------------------------------------------------- several error entries
SeveralErrors == DecodedPayload /\ response.errormessage.type = "list"

\* C19: when the errormessage holds n >= 2 entries, the payload of the raised
\* error holds the same n entries in the same order; only the description2
\* of the first entry is decoded, the later entries are passed through as
\* they came, and no other field of any entry changes.
C19_OnlyFirstEntryDecoded ==
  SeveralErrors
    => LET received == response.errormessage.error
           surfaced == outcome.payload.error
       IN /\ Len(received) >= 2
          /\ Len(surfaced) = Len(received)
          /\ \A i \in 2..Len(received) : surfaced[i] = received[i]
          /\ surfaced[1].errorno = received[1].errorno
          /\ DOMAIN surfaced[1] = DOMAIN received[1]
          /\ Contains(received[1].description2, EncodedFragment)
               => /\ Contains(surfaced[1].description2, DecodedFragment)
                  /\ ~Contains(surfaced[1].description2, <<"%2B">>)

\* two entries with the same encoded fragment: the first comes out decoded,
\* the second as it came
C19_Witness ==
  /\ SeveralErrors
  /\ Contains(response.errormessage.error[2].description2, EncodedFragment)
  /\ Contains(outcome.payload.error[2].description2, EncodedFragment)
  /\ Contains(outcome.payload.error[1].description2, DecodedFragment)

====
